---- MODULE Spec2Model ----
(***************************************************************************)
(* Model of web/workflow_importer.js: the WorkflowImportDialog class.      *)
(*                                                                         *)
(* JavaScript runs the dialog on one thread: every handler runs from its   *)
(* entry to its next await without interruption.  An action of this model  *)
(* is one such run: a user event (toggle, close, a drop, the file picker), *)
(* the settling of one awaited call (api.fetchApi, response.json,          *)
(* app.loadGraphData) together with everything the code does until the     *)
(* next await, or the firing of the auto-close timer.                      *)
(***************************************************************************)
EXTENDS Integers, Sequences, FiniteSets, TLC

(* ------------------------------ bounds -------------------------------- *)

\* Files in one selection (drop or file picker).
MaxFiles == 2

\* Batches accepted by handleFileSelect in one run of Spec; SessionSpec
\* accepts one more, so that a batch can be accepted while an older one is
\* still in flight or has its timer pending.
MaxBatches == 1

(* ------------------------------- state -------------------------------- *)

VARIABLES
    isOpen,        \* this.isOpen
    isProcessing,  \* this.isProcessing
    overlay,       \* this.overlay.style.display
    statusEl,      \* this.statusEl: the status area of the dialog
    pickerOpen,    \* the native file picker of fileInput is showing
    batches,       \* the invocations of handleFileSelect that passed the guards
    calls,         \* the awaited calls that have not settled yet
    timers,        \* the pending setTimeout(() => this.close(), 1500)
    keepOpen,      \* history: a Partial/AllFailed batch completed in the open
                   \* session; no batch was accepted and the user has neither
                   \* closed nor toggled the dialog since
    last           \* history: the handler that ran last and how it ended

vars == <<isOpen, isProcessing, overlay, statusEl, pickerOpen, batches, calls,
          timers, keepOpen, last>>

(* ------------------------------ inputs -------------------------------- *)

\* The text a sequence of characters spells.
RECURSIVE Concat(_)
Concat(chars) == IF chars = <<>> THEN "" ELSE Head(chars) \o Concat(Tail(chars))

\* A File: its name (chars holds the same name character by character) and
\* its MIME type, the type as its '/'-separated parts ("" is <<>>,
\* "image/png" is <<"image", "png">>).
File(chars, type) == [name |-> Concat(chars), chars |-> chars, type |-> type]

Files ==
    { File(<<"a", ".", "p", "n", "g">>, <<"image", "png">>),
      File(<<"b", ".", "w", "e", "b", "p">>, <<"image", "webp">>),
      File(<<"n", "o", "t", "e", "s", ".", "t", "x", "t">>, <<"text", "plain">>) }

\* The FileLists a drop or the picker can deliver: up to n different files
\* of S in any order, the empty list included.
RECURSIVE SeqsUpTo(_, _)
SeqsUpTo(S, n) ==
    IF n = 0 THEN { <<>> }
    ELSE LET shorter == SeqsUpTo(S, n - 1)
             longest == { t \in shorter : Len(t) = n - 1 }
         IN  shorter \cup UNION { { Append(t, x) : x \in S \ { t[i] : i \in 1..Len(t) } }
                                  : t \in longest }

Selections == SeqsUpTo(Files, MaxFiles)

\* A value the service's JSON can carry in workflow / prompt:
\* t is typeof ("undefined" when the key is absent), s the text of a string.
Undefined == [t |-> "undefined", s |-> ""]
GraphObject == [t |-> "object", s |-> ""]
JsonText == [t |-> "string", s |-> "{\"nodes\":[]}"]
BrokenText == [t |-> "string", s |-> "{oops"]
EmptyText == [t |-> "string", s |-> ""]
Payloads == { Undefined, GraphObject, JsonText, BrokenText, EmptyText }

\* How api.fetchApi settles: it rejects with an Error, rejects with a value
\* that has no message (throw undefined), or resolves with an HTTP status.
FetchOutcomes ==
    { [k |-> "reject",  status |-> 0,   msg |-> "Failed to fetch"],
      [k |-> "nullish", status |-> 0,   msg |-> ""],
      [k |-> "http",    status |-> 500, msg |-> ""],
      [k |-> "http",    status |-> 200, msg |-> ""] }

\* How response.json() settles: a SyntaxError, or the parsed body.
JsonOutcomes ==
    { [k |-> "reject", success |-> FALSE, error |-> "Unexpected end of JSON input",
       workflow |-> Undefined, prompt |-> Undefined] }
    \cup { [k |-> "body", success |-> FALSE, error |-> e,
            workflow |-> Undefined, prompt |-> Undefined]
           : e \in { "", "only Automatic1111 parameters found" } }
    \cup { [k |-> "body", success |-> TRUE, error |-> "", workflow |-> w, prompt |-> p]
           : w \in Payloads, p \in Payloads }

\* How app.loadGraphData settles.
LoadOutcomes ==
    { [k |-> "ok",      msg |-> ""],
      [k |-> "reject",  msg |-> "Invalid graph"],
      [k |-> "nullish", msg |-> ""] }

\* The outcomes the session-level specifications draw from: per file a
\* success or a failed extraction (BatchSpec draws from all of them).
CoreFetchOutcomes == { o \in FetchOutcomes : o.k = "reject" \/ o.status = 200 }

CoreJsonOutcomes ==
    { o \in JsonOutcomes : o.success /\ o.workflow = GraphObject /\ o.prompt = Undefined }

CoreLoadOutcomes == { o \in LoadOutcomes : o.k = "ok" }

\* The message of the TypeError raised by reading .message of undefined.
NoMessageError == "Cannot read properties of undefined (reading 'message')"

(* ------------------------- the status area ---------------------------- *)

\* The element show() creates: display none, no text.  by is history: the
\* batch whose code wrote the text (0: none).
FreshStatusEl ==
    [created |-> TRUE, display |-> "none", text |-> "", type |-> "", by |-> 0]

\* this.statusEl = null of the constructor.
NullStatusEl ==
    [created |-> FALSE, display |-> "none", text |-> "", type |-> "", by |-> 0]

\* showStatus(message, type) on element el, called by batch by.
ShowStatus(el, message, type, by) ==
    IF ~el.created THEN el
    ELSE [created |-> TRUE, display |-> "block", text |-> message,
          type |-> type, by |-> by]

BusyMsg == "Please wait for current import to complete..."

NoImageMsg == "No valid image files selected."

ProcessingCountMsg(n) == "Processing " \o ToString(n) \o " image(s)..."

ProcessingFileMsg(name) == "Processing: " \o name \o "..."

\* errors.join("\n")
RECURSIVE JoinLines(_)
JoinLines(errors) ==
    IF errors = <<>> THEN ""
    ELSE IF Len(errors) = 1 THEN errors[1]
    ELSE errors[1] \o "\n" \o JoinLines(Tail(errors))

\* The three-way test that ends handleFileSelect.
Classification(successCount, failCount) ==
    IF successCount > 0 /\ failCount = 0 THEN "AllSuccess"
    ELSE IF successCount > 0 /\ failCount > 0 THEN "Partial"
    ELSE "AllFailed"

FinalMsg(batch) ==
    LET class == Classification(batch.successCount, batch.failCount)
    IN  IF class = "AllSuccess"
        THEN "Successfully imported " \o ToString(batch.successCount) \o " workflow(s)!"
        ELSE IF class = "Partial"
        THEN "Imported " \o ToString(batch.successCount) \o " workflow(s), "
             \o ToString(batch.failCount) \o " failed:\n" \o JoinLines(batch.errors)
        ELSE "Failed to import workflows:\n" \o JoinLines(batch.errors)

FinalType(batch) ==
    LET class == Classification(batch.successCount, batch.failCount)
    IN  IF class = "AllSuccess" THEN "success"
        ELSE IF class = "Partial" THEN "warning"
        ELSE "error"

(* --------------------------- pure helpers ----------------------------- *)

\* Mutant of IsImage: any type with a '/' passes.
IsImageLoose(f) == Len(f.type) >= 2

\* f.type.startsWith("image/")
IsImage(f) == Len(f.type) >= 2 /\ f.type[1] = "image"

\* Mutant of ImageFiles: the filter is left out.
ImageFilesUnfiltered(files) == files

\* Array.from(files).filter(f => f.type.startsWith("image/"))
ImageFiles(files) == SelectSeq(files, IsImage)

\* What an async function of the dialog hands to its awaiter: a returned
\* {success, error, workflow, prompt}, or a thrown error with message error.
Return(success, error, workflow, prompt) ==
    [k |-> "return", success |-> success, error |-> error,
     workflow |-> workflow, prompt |-> prompt]

Throw(message) ==
    [k |-> "throw", success |-> FALSE, error |-> message,
     workflow |-> Undefined, prompt |-> Undefined]

\* The catch of extractWorkflowFromData: err.message of a value without
\* message raises inside the catch, and that leaves the function.
ExtractCatch(nullish, message) ==
    IF nullish THEN Throw(NoMessageError)
    ELSE Return(FALSE, "Extraction failed: " \o message, Undefined, Undefined)

\* response.ok
ResponseOk(status) == status >= 200 /\ status <= 299

\* extractWorkflowFromData up to response.json(): "pending" when the
\* function goes on to await the body.
ExtractAfterFetch(o) ==
    IF o.k = "reject" THEN ExtractCatch(FALSE, o.msg)
    ELSE IF o.k = "nullish" THEN ExtractCatch(TRUE, "")
    ELSE IF ~ResponseOk(o.status)
    THEN ExtractCatch(FALSE, "Extraction failed: " \o ToString(o.status))
    ELSE [k |-> "pending", success |-> FALSE, error |-> "",
          workflow |-> Undefined, prompt |-> Undefined]

\* Mutant of ExtractAfterJson: the error of the body is dropped.
ExtractAfterJsonNoReason(o) ==
    IF o.k = "reject" THEN ExtractCatch(FALSE, o.error)
    ELSE IF ~o.success
    THEN Return(FALSE, "No workflow found in image", Undefined, Undefined)
    ELSE Return(TRUE, "", o.workflow, o.prompt)

\* extractWorkflowFromData from the settling of response.json() on.
ExtractAfterJson(o) ==
    IF o.k = "reject" THEN ExtractCatch(FALSE, o.error)
    ELSE IF ~o.success
    THEN Return(FALSE, IF o.error # "" THEN o.error ELSE "No workflow found in image",
                Undefined, Undefined)
    ELSE Return(TRUE, "", o.workflow, o.prompt)

\* if (workflowJson), if (promptJson)
Truthy(v) == v.t = "object" \/ (v.t = "string" /\ v.s # "")

\* JSON.parse of the texts the model sends.
JsonParses(s) == s = "{\"nodes\":[]}"

\* Mutant of TabName: the pattern takes everything from the first '.' on.
TabNameFirstDot(chars) ==
    LET dots == { i \in 1..Len(chars) : chars[i] = "." }
        first == CHOOSE i \in dots : \A j \in dots : i <= j
        stem == IF dots = {} THEN chars ELSE SubSeq(chars, 1, first - 1)
    IN  IF stem = <<>> THEN "Imported Workflow" ELSE Concat(stem)

\* filename.replace(/\.[^/.]+$/, "") || "Imported Workflow": the pattern
\* matches at i when chars[i] is '.', at least one character follows, and
\* none of the characters up to the end is '/' or '.'; replace takes the
\* leftmost match.
TabName(chars) ==
    LET n == Len(chars)
        matches == { i \in 1..n :
                       /\ chars[i] = "."
                       /\ i < n
                       /\ \A j \in (i + 1)..n : chars[j] \notin { "/", "." } }
        leftmost == CHOOSE i \in matches : \A j \in matches : i <= j
        replaced == IF matches = {} THEN chars ELSE SubSeq(chars, 1, leftmost - 1)
    IN  IF replaced = <<>> THEN "Imported Workflow" ELSE Concat(replaced)

\* The catch of loadWorkflow.
LoadCatch(nullish, message) ==
    IF nullish THEN Throw(NoMessageError)
    ELSE Return(FALSE, "Failed to load workflow: " \o message, Undefined, Undefined)

\* loadWorkflow up to app.loadGraphData: a returned failure, or a "call"
\* record when the host is called, whose error field names the payload
\* the host is handed ("workflow" or "prompt").
LoadPrepare(workflowJson, promptJson) ==
    LET chosen == IF Truthy(workflowJson) THEN workflowJson
                  ELSE IF Truthy(promptJson) THEN promptJson
                  ELSE Undefined
        src == IF Truthy(workflowJson) THEN "workflow" ELSE "prompt"
    IN  IF chosen.t = "string" /\ ~JsonParses(chosen.s)
        THEN LoadCatch(FALSE, "Unexpected token o in JSON at position 1")
        ELSE IF chosen.t = "undefined"
        THEN Return(FALSE, "No valid workflow data found", Undefined, Undefined)
        ELSE [k |-> "call", success |-> FALSE, error |-> src,
              workflow |-> Undefined, prompt |-> Undefined]

\* Mutant of LoadAfterHost: what the host raises is swallowed.
LoadAfterHostSwallows(o) == Return(TRUE, "", Undefined, Undefined)

\* loadWorkflow from the settling of app.loadGraphData on.
LoadAfterHost(o) ==
    IF o.k = "ok" THEN Return(TRUE, "", Undefined, Undefined)
    ELSE LoadCatch(o.k = "nullish", o.msg)

\* processImageFile after extractWorkflowFromData returned r: the
\* extraction's failure, or whatever loadWorkflow does first.
ProcessAfterExtract(r) ==
    IF r.k = "throw" THEN r
    ELSE IF ~r.success THEN Return(FALSE, r.error, Undefined, Undefined)
    ELSE LoadPrepare(r.workflow, r.prompt)

(* ------------------------ the batch loop ------------------------------ *)

\* History: the files of a selection whose MIME type has "image" as its
\* first part and a second part after it.
ImageMimeCount(files) ==
    Cardinality({ i \in 1..Len(files) :
                    /\ Len(files[i].type) > 1
                    /\ files[i].type[1] = "image" })

\* The locals of one accepted handleFileSelect(files).  given (the number
\* of files handed in), images (the image files among them), closedDuring
\* (close() ran while it was in flight), hostCalls (the files, by index,
\* app.loadGraphData was called for, in the order of the calls) and hostOk
\* (the calls of app.loadGraphData that returned without raising) are
\* history; pc is "running", "done" (the function returned) or "aborted"
\* (an error left the function).
NewBatch(files) ==
    [files |-> ImageFiles(files), successCount |-> 0, failCount |-> 0,
     errors |-> <<>>, pc |-> "running", given |-> Len(files),
     images |-> ImageMimeCount(files), closedDuring |-> FALSE,
     hostCalls |-> <<>>, hostOk |-> 0]

\* The locals are dead once the function has returned: a finished batch
\* keeps its place in batches and nothing of its locals.
Returned(batch) ==
    [files |-> <<>>, successCount |-> 0, failCount |-> 0, errors |-> <<>>,
     pc |-> "done", given |-> 0, images |-> 0, closedDuring |-> batch.closedDuring,
     hostCalls |-> <<>>, hostOk |-> 0]

\* History: what the batch had counted when its function returned.
Outcome(batch) ==
    [successCount |-> batch.successCount, failCount |-> batch.failCount,
     errors |-> batch.errors, given |-> batch.given, images |-> batch.images,
     hostCalls |-> batch.hostCalls, hostOk |-> batch.hostOk]

NoOutcome ==
    [successCount |-> 0, failCount |-> 0, errors |-> <<>>, given |-> 0, images |-> 0,
     hostCalls |-> <<>>, hostOk |-> 0]

\* History: handler op ran last, ended as ret, on behalf of batch b (0: none).
Ran(op, ret, b) == [op |-> op, ret |-> ret, b |-> b, outcome |-> NoOutcome]

\* History: handleFileSelect(files) ran last and ended as ret.
RanSelect(files, ret, b) ==
    [op |-> "handleFileSelect", ret |-> ret, b |-> b,
     outcome |-> [NoOutcome EXCEPT !.given = Len(files),
                                   !.images = ImageMimeCount(files)]]

\* Mutant of IssueExtract: processImageFile is not awaited, so the loop
\* starts the fetch of every remaining file at once.
IssueExtractAll(b, i, n) ==
    { [b |-> b, i |-> j, kind |-> "fetch", src |-> "", tab |-> ""] : j \in i..n }

\* The fetch the loop has outstanding when it turns to file i of n: the
\* loop awaits processImageFile(file) before it takes the next file.
IssueExtract(b, i, n) ==
    { [b |-> b, i |-> i, kind |-> "fetch", src |-> "", tab |-> ""] }

\* Mutant of CatchFile: the loop has no catch and the error leaves
\* handleFileSelect.
CatchFileRethrow(batch, file, message) == [batch EXCEPT !.pc = "aborted"]

\* catch (err) of the loop: the file counts as failed.
CatchFile(batch, file, message) ==
    [batch EXCEPT !.failCount = @ + 1,
                  !.errors = Append(@, file.name \o ": " \o message)]

\* The body of the loop once processImageFile(file) has settled with r.
RecordOutcome(batch, file, r) ==
    IF r.k = "throw" THEN CatchFile(batch, file, r.error)
    ELSE IF r.success THEN [batch EXCEPT !.successCount = @ + 1]
    ELSE [batch EXCEPT !.failCount = @ + 1,
                       !.errors = Append(@, file.name \o ": " \o r.error)]

\* Mutant of AutoClose: no timer is set.
AutoCloseNever(b, batch) == {}

\* The timers the end of batch b sets.  reopened is history: show() has run
\* since the timer was set.
AutoClose(b, batch) ==
    IF batch.successCount > 0 /\ batch.failCount = 0
    THEN { [by |-> b, reopened |-> FALSE] }
    ELSE {}

\* handleFileSelect resumes: call c has settled and processImageFile of
\* file c.i of batch c.b has settled with r.  Either the loop turns to the
\* next file, up to its fetch, or the function runs to its end.  returned
\* is history: the calls of app.loadGraphData that returned in this step.
FileSettled(c, r, op, returned) ==
    LET b == c.b
        nb == RecordOutcome([batches[b] EXCEPT !.hostOk = @ + returned],
                            batches[b].files[c.i], r)
        n == Len(nb.files)
    IN  IF nb.pc = "aborted"
        THEN /\ batches' = [batches EXCEPT ![b] = nb]
             /\ calls' = calls \ {c}
             /\ last' = Ran(op, "aborted", b)
             /\ UNCHANGED <<isOpen, isProcessing, overlay, statusEl, pickerOpen,
                            timers, keepOpen>>
        ELSE IF c.i < n
        THEN /\ batches' = [batches EXCEPT ![b] = nb]
             /\ statusEl' = ShowStatus(statusEl, ProcessingFileMsg(nb.files[c.i + 1].name),
                                       "info", b)
             /\ calls' = (calls \ {c}) \cup IssueExtract(b, c.i + 1, n)
             /\ last' = Ran(op, "next", b)
             /\ UNCHANGED <<isOpen, isProcessing, overlay, pickerOpen, timers, keepOpen>>
        ELSE /\ batches' = [batches EXCEPT ![b] = Returned(nb)]
             /\ isProcessing' = FALSE
             /\ statusEl' = ShowStatus(statusEl, FinalMsg(nb), FinalType(nb), b)
             /\ timers' = timers \cup AutoClose(b, nb)
             /\ calls' = calls \ {c}
             /\ keepOpen' = (keepOpen \/
                             (isOpen /\ Classification(nb.successCount, nb.failCount)
                                        # "AllSuccess"))
             /\ last' = [op |-> op,
                         ret |-> Classification(nb.successCount, nb.failCount),
                         b |-> b, outcome |-> Outcome(nb)]
             /\ UNCHANGED <<isOpen, overlay, pickerOpen>>

\* Call c has settled and processImageFile goes on to await another call:
\* response.json(), or app.loadGraphData(graphData, true, true, tabName)
\* with the payload src names and the tab title of the file.
AwaitNext(c, kind, src, op) ==
    /\ calls' = (calls \ {c}) \cup
                 { [b |-> c.b, i |-> c.i, kind |-> kind, src |-> src,
                    tab |-> IF kind = "load"
                            THEN TabName(batches[c.b].files[c.i].chars)
                            ELSE ""] }
    /\ batches' = IF kind = "load"
                   THEN [batches EXCEPT ![c.b].hostCalls = Append(@, c.i)]
                   ELSE batches
    /\ last' = Ran(op, "await", c.b)
    /\ UNCHANGED <<isOpen, isProcessing, overlay, statusEl, pickerOpen, timers,
                   keepOpen>>

\* processImageFile has the extraction's result r: it returns, or it has
\* called app.loadGraphData and awaits it.
AfterExtract(c, r, op) ==
    LET p == ProcessAfterExtract(r)
    IN  IF p.k = "call" THEN AwaitNext(c, "load", p.error, op)
        ELSE FileSettled(c, p, op, 0)

\* api.fetchApi of call c settles with o.
FetchReturn(c, o) ==
    /\ c \in calls /\ c.kind = "fetch"
    /\ LET r == ExtractAfterFetch(o)
       IN  IF r.k = "pending" THEN AwaitNext(c, "json", "", "fetchReturn")
           ELSE AfterExtract(c, r, "fetchReturn")

\* response.json() of call c settles with o.
JsonReturn(c, o) ==
    /\ c \in calls /\ c.kind = "json"
    /\ AfterExtract(c, ExtractAfterJson(o), "jsonReturn")

\* app.loadGraphData of call c settles with o.
LoadReturn(c, o) ==
    /\ c \in calls /\ c.kind = "load"
    /\ FileSettled(c, LoadAfterHost(o), "loadReturn", IF o.k = "ok" THEN 1 ELSE 0)

(* --------------------------- the dialog ------------------------------- *)

\* Mutant of BusyGuard: the guard is never taken.
BusyGuardOff == FALSE

\* if (this.isProcessing) of handleFileSelect.
BusyGuard == isProcessing

\* handleFileSelect(files), from its entry to the first await or return.
handleFileSelect(files) ==
    IF Len(files) = 0
    THEN /\ last' = RanSelect(files, "empty", 0)
         /\ UNCHANGED <<isOpen, isProcessing, overlay, statusEl, batches, calls,
                        timers, keepOpen>>
    ELSE IF BusyGuard
    THEN /\ statusEl' = ShowStatus(statusEl, BusyMsg, "warning", 0)
         /\ last' = RanSelect(files, "busy", 0)
         /\ UNCHANGED <<isOpen, isProcessing, overlay, batches, calls, timers, keepOpen>>
    ELSE IF Len(ImageFiles(files)) = 0
    THEN /\ statusEl' = ShowStatus(statusEl, NoImageMsg, "error", 0)
         /\ last' = RanSelect(files, "noimage", 0)
         /\ UNCHANGED <<isOpen, isProcessing, overlay, batches, calls, timers, keepOpen>>
    ELSE LET b == Len(batches) + 1
             batch == NewBatch(files)
         IN  /\ isProcessing' = TRUE
             /\ batches' = Append(batches, batch)
             /\ statusEl' = ShowStatus(
                    ShowStatus(statusEl, ProcessingCountMsg(Len(batch.files)), "info", b),
                    ProcessingFileMsg(batch.files[1].name), "info", b)
             /\ calls' = calls \cup IssueExtract(b, 1, Len(batch.files))
             /\ keepOpen' = FALSE
             /\ last' = RanSelect(files, "accepted", b)
             /\ UNCHANGED <<isOpen, overlay, timers>>

\* Mutant of close: isProcessing is left as it is.
closeKeepsProcessing(op, byUser, by) ==
    /\ isOpen' = FALSE
    /\ overlay' = "none"
    /\ batches' = [n \in DOMAIN batches |->
                     IF batches[n].pc = "running"
                     THEN [batches[n] EXCEPT !.closedDuring = TRUE]
                     ELSE batches[n]]
    /\ keepOpen' = IF byUser THEN FALSE ELSE keepOpen
    /\ last' = Ran(op, "", by)
    /\ UNCHANGED <<isProcessing, statusEl, pickerOpen, calls>>

\* close(), called by handler op on behalf of batch by (0: by the user):
\* the batches in flight are left to run.
close(op, byUser, by) ==
    /\ isOpen' = FALSE
    /\ overlay' = "none"
    /\ isProcessing' = FALSE
    /\ batches' = [b \in DOMAIN batches |->
                     IF batches[b].pc = "running"
                     THEN [batches[b] EXCEPT !.closedDuring = TRUE]
                     ELSE batches[b]]
    /\ keepOpen' = IF byUser THEN FALSE ELSE keepOpen
    /\ last' = Ran(op, "", by)
    /\ UNCHANGED <<statusEl, pickerOpen, calls>>

\* show(): a new drop zone and a new, empty status area.
show(op) ==
    /\ isOpen' = TRUE
    /\ isProcessing' = FALSE
    /\ statusEl' = FreshStatusEl
    /\ overlay' = "flex"
    /\ keepOpen' = FALSE
    /\ timers' = { [t EXCEPT !.reopened = TRUE] : t \in timers }
    /\ last' = Ran(op, "", 0)
    /\ UNCHANGED <<pickerOpen, batches, calls>>

\* toggle(): the toolbar button or Ctrl+Shift+I.
Toggle ==
    /\ ~pickerOpen
    /\ IF isOpen THEN close("toggle", TRUE, 0) /\ UNCHANGED timers
       ELSE show("toggle")

\* A click on the backdrop or on the close button of the dialog.
CloseClick ==
    /\ ~pickerOpen
    /\ overlay = "flex"
    /\ close("close", TRUE, 0)
    /\ UNCHANGED timers

\* A click on the drop zone: fileInput.click() opens the file picker.
OpenPicker ==
    /\ ~pickerOpen
    /\ overlay = "flex"
    /\ pickerOpen' = TRUE
    /\ last' = Ran("openPicker", "", 0)
    /\ UNCHANGED <<isOpen, isProcessing, overlay, statusEl, batches, calls, timers,
                   keepOpen>>

\* The picker is dismissed without a change event.
CancelPicker ==
    /\ pickerOpen
    /\ pickerOpen' = FALSE
    /\ last' = Ran("cancelPicker", "", 0)
    /\ UNCHANGED <<isOpen, isProcessing, overlay, statusEl, batches, calls, timers,
                   keepOpen>>

\* The change event of fileInput.
PickerChange(files) ==
    /\ pickerOpen
    /\ pickerOpen' = FALSE
    /\ handleFileSelect(files)

\* The drop event of the drop zone.
Drop(files) ==
    /\ ~pickerOpen
    /\ overlay = "flex"
    /\ UNCHANGED pickerOpen
    /\ handleFileSelect(files)

\* A timer set by a fully successful batch fires: () => this.close().
TimerFire(t) ==
    /\ t \in timers
    /\ timers' = timers \ {t}
    /\ close("timer", FALSE, t.by)

(* -------------------------- specification ----------------------------- *)

Init ==
    /\ isOpen = FALSE
    /\ isProcessing = FALSE
    /\ overlay = "none"
    /\ statusEl = NullStatusEl
    /\ pickerOpen = FALSE
    /\ batches = <<>>
    /\ calls = {}
    /\ timers = {}
    /\ keepOpen = FALSE
    /\ last = Ran("constructor", "", 0)

\* An awaited call of batch b settles, in one of the ways F (api.fetchApi),
\* J (response.json) and L (app.loadGraphData) list.
Settle(b, F, J, L) ==
    \E c \in calls :
        /\ c.b = b
        /\ \/ \E o \in F : FetchReturn(c, o)
           \/ \E o \in J : JsonReturn(c, o)
           \/ \E o \in L : LoadReturn(c, o)

SettleCore(b) == Settle(b, CoreFetchOutcomes, CoreJsonOutcomes, CoreLoadOutcomes)

SettleAny(b) == Settle(b, FetchOutcomes, JsonOutcomes, LoadOutcomes)

AutoCloseFires == \E t \in timers : TimerFire(t)

\* The session: any number of selections, of which up to cap are accepted
\* as batches.
NextUpTo(cap) ==
    \/ Toggle
    \/ CloseClick
    \/ OpenPicker
    \/ CancelPicker
    \/ \E files \in Selections : PickerChange(files) /\ Len(batches') <= cap
    \/ \E files \in Selections : Drop(files) /\ Len(batches') <= cap
    \/ \E b \in 1..cap : SettleCore(b)
    \/ AutoCloseFires

Next == NextUpTo(MaxBatches)

Spec == Init /\ [][Next]_vars

\* The session with its timers firing: setTimeout runs its callback once
\* the delay has passed.
TimerSpec == Spec /\ WF_vars(AutoCloseFires)

SessionNext == NextUpTo(MaxBatches + 1)

SessionSpec == Init /\ [][SessionNext]_vars

\* One batch under every outcome of its calls: the user makes selections
\* until one is accepted, and opens and closes the dialog at will.
BatchNext ==
    \/ Toggle
    \/ CloseClick
    \/ OpenPicker
    \/ CancelPicker
    \/ \E files \in Selections : batches = <<>> /\ PickerChange(files)
    \/ \E files \in Selections : batches = <<>> /\ Drop(files)
    \/ SettleAny(1)
    \/ AutoCloseFires

BatchSpec == Init /\ [][BatchNext]_vars

FairBatchSpec ==
    /\ BatchSpec
    /\ WF_vars(SettleAny(1))
    /\ WF_vars(AutoCloseFires)

(* ----------------------- the scripted service ------------------------- *)

\* Files in one scripted selection.
MaxScripted == 3

\* api.fetchApi resolves with HTTP status s.
Http(s) == [k |-> "http", status |-> s, msg |-> ""]

\* response.json() resolves with {success, error, workflow, prompt}.
Body(success, error, workflow, prompt) ==
    [k |-> "body", success |-> success, error |-> error,
     workflow |-> workflow, prompt |-> prompt]

\* app.loadGraphData resolves.
HostOk == [k |-> "ok", msg |-> ""]

\* What the service and the host answer for one file: how its fetch, its
\* response.json() and its app.loadGraphData settle when they are reached.
Reply(fetch, json, load) == [fetch |-> fetch, json |-> json, load |-> load]

\* The image holds a graph and the host loads it.
OkReply == Reply(Http(200), Body(TRUE, "", GraphObject, Undefined), HostOk)

\* The service answers 200 with {success: false, error: e} ("": no error key).
SoftReply(e) == Reply(Http(200), Body(FALSE, e, Undefined, Undefined), HostOk)

\* The service answers with a non-success status.
StatusReply(s) == Reply(Http(s), Body(FALSE, "", Undefined, Undefined), HostOk)

\* The service answers 200 with {success: true, workflow: w, prompt: p}.
PayloadReply(w, p) == Reply(Http(200), Body(TRUE, "", w, p), HostOk)

\* The image holds a graph and the host raises on it.
HostRaisesReply ==
    Reply(Http(200), Body(TRUE, "", GraphObject, Undefined),
          [k |-> "reject", msg |-> "Invalid graph"])

CoarseReplies ==
    { OkReply, SoftReply(""), SoftReply("only Automatic1111 parameters found"),
      StatusReply(500), HostRaisesReply }

FineReplies == { PayloadReply(w, p) : w \in Payloads, p \in Payloads }

\* The names of the scripted files, character by character: file i of a
\* scripted selection has name i.
ScriptedNames ==
    << <<"r", "e", "n", "d", "e", "r", ".", "f", "i", "n", "a", "l", ".", "p", "n", "g">>,
       <<".", "p", "n", "g">>,
       <<"R", "E", "A", "D", "M", "E">>,
       <<"s", "h", "o", "t", ".">> >>

\* An image File together with the reply its calls will get.
ScriptedFile(chars, reply) ==
    [name |-> Concat(chars), chars |-> chars, type |-> <<"image", "png">>,
     reply |-> reply]

\* The scripted FileLists: up to MaxScripted files, each with one of the
\* coarse replies, and the single files with every combination of payloads.
ScriptedSelections ==
    UNION { { [i \in 1..n |-> ScriptedFile(ScriptedNames[i], replies[i])]
              : replies \in [1..n -> CoarseReplies] }
            : n \in 1..MaxScripted }
    \cup { <<ScriptedFile(ScriptedNames[i], reply)>>
           : i \in 1..Len(ScriptedNames), reply \in FineReplies }

\* The drop of a scripted selection on the idle dialog.
ScriptedDrop == \E files \in ScriptedSelections : batches = <<>> /\ Drop(files)

\* An awaited call settles the way its file's reply says.
ServiceReplies ==
    \E c \in calls :
        LET reply == batches[c.b].files[c.i].reply
        IN  \/ FetchReturn(c, reply.fetch)
            \/ JsonReturn(c, reply.json)
            \/ LoadReturn(c, reply.load)

\* One batch whose calls settle as scripted.
ReplyNext ==
    \/ Toggle
    \/ ScriptedDrop
    \/ ServiceReplies
    \/ AutoCloseFires

ReplySpec == Init /\ [][ReplyNext]_vars

(* ------------------------------ claims -------------------------------- *)

Classes == { "AllSuccess", "Partial", "AllFailed" }

\* A batch's handleFileSelect has just returned.
Completed == last.ret \in Classes

\* The calls of batch b that have not settled.
CallsOf(b) == { c \in calls : c.b = b }

\* C1 as stated: whenever handleFileSelect is called while isProcessing is
\* true, it ends in the busy warning and changes neither isOpen,
\* isProcessing, the batches in flight, their calls nor the timers.
C1_EveryCallWhileBusyWarned ==
    [][ (last'.op = "handleFileSelect" /\ isProcessing)
        => /\ last'.ret = "busy"
           /\ statusEl'.text = BusyMsg /\ statusEl'.type = "warning"
           /\ UNCHANGED <<isOpen, isProcessing, batches, calls, timers>> ]_vars

\* C1 amended: whenever handleFileSelect is called with at least one file
\* while isProcessing is true, it ends in the busy warning, issues no call,
\* and leaves isOpen, isProcessing, the batches in flight (hence their
\* eventual counts and messages) and the timers as they were.
C1_BusyRejected ==
    [][ (last'.op = "handleFileSelect" /\ last'.outcome.given > 0 /\ isProcessing)
        => /\ last'.ret = "busy"
           /\ statusEl'.text = BusyMsg /\ statusEl'.type = "warning"
           /\ UNCHANGED <<isOpen, isProcessing, batches, calls, timers>> ]_vars

\* A selection with an image file was rejected while a batch was in flight.
C1_Witness ==
    /\ last.op = "handleFileSelect" /\ last.ret = "busy"
    /\ last.outcome.images > 0
    /\ isProcessing
    /\ \E b \in DOMAIN batches : batches[b].pc = "running" /\ CallsOf(b) # {}
    /\ statusEl.text = BusyMsg

\* C2: a batch has at most one call outstanding, and that call is for the
\* file right after the files the batch has counted: the fetch of file i+1
\* is out only once file i has been counted, and no call of an earlier file
\* is still out.
C2_Sequential ==
    \A b \in DOMAIN batches :
        /\ Cardinality(CallsOf(b)) <= 1
        /\ \A c \in CallsOf(b) :
              /\ batches[b].pc = "running"
              /\ c.i = batches[b].successCount + batches[b].failCount + 1

\* The fetch of the second file is out after the first file went through
\* extraction and load.
C2_Witness ==
    \E c \in calls :
        /\ c.i = 2 /\ c.kind = "fetch"
        /\ batches[c.b].successCount = 1

\* C3: when a batch's handleFileSelect returns, successCount + failCount is
\* the number of files handed in whose MIME type is image/...
C3_CountsImages ==
    Completed => last.outcome.successCount + last.outcome.failCount = last.outcome.images

\* A batch that was handed a non-image file too, and was closed while in
\* flight, has returned.
C3_Witness ==
    /\ Completed
    /\ last.outcome.given > last.outcome.images
    /\ batches[last.b].closedDuring

\* No error has left a batch's loop, each failure left one entry, and a
\* batch that has not returned has a call out for a file of its list.
C4_Safe ==
    \A b \in DOMAIN batches :
        /\ batches[b].pc # "aborted"
        /\ Len(batches[b].errors) = batches[b].failCount
        /\ batches[b].pc = "running" =>
              \E c \in CallsOf(b) :
                  /\ c.i = batches[b].successCount + batches[b].failCount + 1
                  /\ c.i <= Len(batches[b].files)

\* C4: whatever a file's calls do, no error leaves the loop, the failure is
\* one entry of errors, the next file's extraction is issued, and (the
\* calls settling) the batch reaches its final classification.
C4_BestEffort ==
    /\ [](C4_Safe /\ (Completed => Len(last.outcome.errors) = last.outcome.failCount))
    /\ (batches # <<>>) ~> (batches # <<>> /\ batches[1].pc = "done")

\* A batch of two files has returned with both files failed, the first by
\* an error thrown out of processImageFile.
C4_Witness ==
    /\ last.ret = "AllFailed"
    /\ last.outcome.failCount = 2
    /\ last.outcome.errors[1] = "a.png: " \o NoMessageError

\* C5 as stated: a selection without image files, empty or not, issues no
\* call, shows the validation error and leaves isOpen and isProcessing.
C5_NoImageAlwaysError ==
    [][ (last'.op = "handleFileSelect" /\ last'.outcome.images = 0)
        => /\ calls' = calls
           /\ statusEl'.text = NoImageMsg /\ statusEl'.type = "error"
           /\ UNCHANGED <<isOpen, isProcessing>> ]_vars

\* C5 amended: a selection without image files issues no call and leaves
\* isOpen and isProcessing; an empty one shows nothing, a non-empty one
\* shows the busy warning while isProcessing is true and the validation
\* error otherwise.
C5_NoImageRejected ==
    [][ (last'.op = "handleFileSelect" /\ last'.outcome.images = 0)
        => /\ calls' = calls /\ batches' = batches
           /\ UNCHANGED <<isOpen, isProcessing>>
           /\ IF last'.outcome.given = 0 THEN statusEl' = statusEl
              ELSE IF isProcessing
              THEN statusEl'.text = BusyMsg /\ statusEl'.type = "warning"
              ELSE statusEl'.text = NoImageMsg /\ statusEl'.type = "error" ]_vars

\* A non-empty selection without image files got the validation error.
C5_Witness ==
    /\ last.op = "handleFileSelect" /\ last.ret = "noimage"
    /\ last.outcome.given > 0 /\ last.outcome.images = 0
    /\ statusEl.text = NoImageMsg

\* C6: isProcessing implies isOpen.
C6_ProcessingImpliesOpen == isProcessing => isOpen

\* C7: a batch that returns with successCount > 0 and failCount = 0 has
\* reset isProcessing and left one timer, and (the timer firing) the
\* session is then closed.
C7_AutoClose ==
    /\ [](last.ret = "AllSuccess" => (~isProcessing /\ \E t \in timers : t.by = last.b))
    /\ (last.ret = "AllSuccess") ~> ~isOpen

\* A batch of two files has returned fully successful in the open session.
C7_Witness ==
    /\ last.ret = "AllSuccess"
    /\ last.outcome.successCount = 2
    /\ isOpen

\* C8: after a Partial or AllFailed batch returned in the open session, the
\* session stays open until the user closes or toggles it (or submits the
\* next batch).
C8_FailureKeepsOpen == keepOpen => isOpen

\* C9: (isOpen, isProcessing) changes only from Closed to Open.Idle by
\* show, from Open.Idle to Open.Processing by an accepted selection, from
\* Open.Processing to Open.Idle by a batch returning, and from Open to
\* Closed by close.
C9_Transitions ==
    [][ (<<isOpen, isProcessing>>' # <<isOpen, isProcessing>>)
        => \/ /\ ~isOpen /\ ~isProcessing /\ isOpen' /\ ~isProcessing'
              /\ last'.op = "toggle"
           \/ /\ isOpen /\ ~isProcessing /\ isOpen' /\ isProcessing'
              /\ last'.op = "handleFileSelect" /\ last'.ret = "accepted"
           \/ /\ isOpen /\ isProcessing /\ isOpen' /\ ~isProcessing'
              /\ last'.ret \in Classes
           \/ /\ isOpen /\ ~isOpen' /\ ~isProcessing'
              /\ last'.op \in { "toggle", "close", "timer" } ]_vars

\* C10: a batch that was in flight when close() ran keeps its call
\* outstanding until it returns, and its final message is never in the
\* status area of a dialog that is showing.
C10_ClosedBatchSilent ==
    \A b \in DOMAIN batches :
        batches[b].closedDuring =>
            /\ batches[b].pc = "running" => CallsOf(b) # {}
            /\ ~ /\ Completed /\ last.b = b
                 /\ isOpen /\ overlay = "flex"
                 /\ statusEl.display = "block" /\ statusEl.by = b

\* The call that settles in this step, its batch and its file.
SettledCall == CHOOSE c \in calls : c \notin calls'

SettledBatch == batches[SettledCall.b]

SettledFile == SettledBatch.files[SettledCall.i]

\* The step ends the processing of SettledFile: the loop has counted it.
FileCounted == last'.ret \in Classes \cup { "next" }

\* What the batch of the step has counted after the step.
SuccessAfter ==
    IF last'.ret \in Classes THEN last'.outcome.successCount
    ELSE batches'[last'.b].successCount

FailAfter ==
    IF last'.ret \in Classes THEN last'.outcome.failCount
    ELSE batches'[last'.b].failCount

ErrorsAfter ==
    IF last'.ret \in Classes THEN last'.outcome.errors
    ELSE batches'[last'.b].errors

\* The step adds message as the one new failure of SettledFile.
FailsWith(message) ==
    /\ FileCounted
    /\ ErrorsAfter = Append(SettledBatch.errors, SettledFile.name \o ": " \o message)
    /\ FailAfter = SettledBatch.failCount + 1
    /\ SuccessAfter = SettledBatch.successCount

\* The reply is 200 with {success: false}.
IsSoft(reply) ==
    reply.fetch = Http(200) /\ reply.json.k = "body" /\ ~reply.json.success

\* The reason the claim gives for a soft failure.
SoftReason(reply) ==
    IF reply.json.error = "" THEN "No workflow found in image" ELSE reply.json.error

\* The failure messages of the soft failures among files, in file order.
RECURSIVE SoftMessages(_)
SoftMessages(files) ==
    IF files = <<>> THEN <<>>
    ELSE (IF IsSoft(Head(files).reply)
          THEN << Head(files).name \o ": " \o SoftReason(Head(files).reply) >>
          ELSE <<>>)
         \o SoftMessages(Tail(files))

\* The files of a list whose reply is r.
CountReply(files, r) == Cardinality({ i \in 1..Len(files) : files[i].reply = r })

\* C11: a file whose extraction answers 200 with {success: false, error: e}
\* adds exactly one failure message, its name followed by e (or by "No
\* workflow found in image" when there is no error), and the loop goes on
\* to the next file; a batch in which every file either succeeds or fails
\* this way returns with one success per succeeding file and the failure
\* messages in file order (of 3 files with only file 2 failing: 2 and 1).
C11_SoftFailure ==
    [][ /\ (last'.op = "jsonReturn" /\ IsSoft(SettledFile.reply))
           => /\ FailsWith(SoftReason(SettledFile.reply))
              /\ last'.ret = "next"
                 => \E c \in calls' : /\ c.b = SettledCall.b
                                       /\ c.i = SettledCall.i + 1
                                       /\ c.kind = "fetch"
        /\ ( /\ last'.ret \in Classes
             /\ \A i \in 1..Len(SettledBatch.files) :
                   \/ SettledBatch.files[i].reply = OkReply
                   \/ IsSoft(SettledBatch.files[i].reply) )
           => /\ last'.outcome.errors = SoftMessages(SettledBatch.files)
              /\ last'.outcome.failCount = Len(SoftMessages(SettledBatch.files))
              /\ last'.outcome.successCount = CountReply(SettledBatch.files, OkReply)
              /\ ( /\ Len(SettledBatch.files) = 3
                   /\ SoftMessages(SettledBatch.files)
                      = SoftMessages(<<SettledBatch.files[2]>>)
                   /\ IsSoft(SettledBatch.files[2].reply) )
                 => /\ last'.outcome.successCount = 2
                    /\ last'.outcome.failCount = 1 ]_vars

\* Of three files the first succeeded, the second failed with the reason
\* the service gave, and the fetch of the third is out.
C11_Witness ==
    /\ batches # <<>>
    /\ batches[1].pc = "running"
    /\ Len(batches[1].files) = 3
    /\ batches[1].files[1].reply = OkReply
    /\ batches[1].files[3].reply = OkReply
    /\ batches[1].successCount = 1 /\ batches[1].failCount = 1
    /\ batches[1].errors = << ".png: only Automatic1111 parameters found" >>
    /\ \E c \in calls : c.b = 1 /\ c.i = 3 /\ c.kind = "fetch"

\* The calls of app.loadGraphData that are out for SettledFile after the step.
LoadsAfter ==
    { c \in calls' : c.b = SettledCall.b /\ c.i = SettledCall.i /\ c.kind = "load" }

\* C12: when the service answers the fetch with a non-success status s,
\* the file fails with the reason "Extraction failed: " followed by s, the
\* prefix once, and app.loadGraphData is not called for it.
C12_StatusReason ==
    [][ ( /\ last'.op = "fetchReturn"
          /\ SettledFile.reply.fetch.k = "http"
          /\ ~ResponseOk(SettledFile.reply.fetch.status) )
        => /\ FailsWith("Extraction failed: " \o ToString(SettledFile.reply.fetch.status))
           /\ LoadsAfter = {} ]_vars

\* The key is in the body.
Present(v) == v.t # "undefined"

\* v is a text that JSON.parse rejects.
Unparsable(v) == v.t = "string" /\ ~JsonParses(v.s)

\* The step counts SettledFile as failed without a call of the host.
FailsUnloaded ==
    /\ FileCounted
    /\ FailAfter = SettledBatch.failCount + 1
    /\ SuccessAfter = SettledBatch.successCount
    /\ LoadsAfter = {}

\* C13: after an extraction success the host is handed the workflow
\* payload whenever workflow is present, the prompt payload when only
\* prompt is present, and is not called, the file failing with "No valid
\* workflow data found", when both are absent; a payload that does not
\* parse fails the file and the other payload is not tried.
C13_PrefersWorkflow ==
    [][ ( /\ last'.op = "jsonReturn"
          /\ SettledFile.reply.json.k = "body"
          /\ SettledFile.reply.json.success )
        => LET workflow == SettledFile.reply.json.workflow
               prompt == SettledFile.reply.json.prompt
           IN  IF Present(workflow)
               THEN IF Unparsable(workflow) THEN FailsUnloaded
                    ELSE \E c \in LoadsAfter : c.src = "workflow"
               ELSE IF Present(prompt)
               THEN IF Unparsable(prompt) THEN FailsUnloaded
                    ELSE \E c \in LoadsAfter : c.src = "prompt"
               ELSE /\ FailsWith("No valid workflow data found")
                    /\ LoadsAfter = {} ]_vars

\* The last '.' of a name (0: none).
LastDot(chars) ==
    LET dots == { i \in 1..Len(chars) : chars[i] = "." }
    IN  IF dots = {} THEN 0 ELSE CHOOSE i \in dots : \A j \in dots : j <= i

\* The title the claim gives: the name without its final extension, the
\* characters after the last '.' together with that '.' (a name without
\* '.', or with nothing after its last '.', has no extension), and the
\* default title when nothing is left.
ClaimedTitle(chars) ==
    LET dot == LastDot(chars)
        stem == IF dot = 0 \/ dot = Len(chars) THEN chars
                ELSE SubSeq(chars, 1, dot - 1)
    IN  IF stem = <<>> THEN "Imported Workflow" ELSE Concat(stem)

\* C14: the tab title app.loadGraphData is called with is the file's name
\* without its final extension, or "Imported Workflow" when nothing is
\* left: "render.final" for "render.final.png", the default for ".png",
\* and the name itself for a name without '.'.
C14_TabTitle ==
    \A c \in calls :
        c.kind = "load" =>
            LET f == batches[c.b].files[c.i]
            IN  /\ c.tab = ClaimedTitle(f.chars)
                /\ f.name = "render.final.png" => c.tab = "render.final"
                /\ f.name = ".png" => c.tab = "Imported Workflow"
                /\ LastDot(f.chars) = 0 => c.tab = f.name

\* The host has been called for ".png", for "render.final.png" and for a
\* name without '.'.
C14_Witness ==
    /\ \E c \in calls : c.kind = "load" /\ c.tab = "Imported Workflow"
    /\ batches[1].files[1].name = "render.final.png"
    /\ batches[1].successCount = 1

\* C17: every result with success true that extractWorkflowFromData
\* returns has workflow or prompt, whatever body with success true the
\* service sends.
C17_SuccessHasPayload ==
    [][ last'.op = "jsonReturn"
        => LET result == ExtractAfterJson(SettledFile.reply.json)
           IN  (result.k = "return" /\ result.success)
               => (Present(result.workflow) \/ Present(result.prompt)) ]_vars

\* The batches whose handleFileSelect has not returned.
InFlight == { b \in DOMAIN batches : batches[b].pc = "running" }

\* C15: toggle() opens the closed session and closes the open one; open()
\* leaves isOpen true and isProcessing false; close(), from the user or
\* from the timer, leaves both false, also while a batch is in flight.
C15_ToggleOpenClose ==
    [][ /\ last'.op = "toggle"
           => /\ isOpen' = ~isOpen
              /\ ~isProcessing'
              /\ overlay' = IF isOpen THEN "none" ELSE "flex"
        /\ last'.op \in { "close", "timer" }
           => (~isOpen' /\ ~isProcessing' /\ overlay' = "none") ]_vars

\* close() has just run on a session that was processing a batch, and the
\* batch is still in flight.
C15_Witness ==
    /\ last.op = "close"
    /\ ~isOpen /\ ~isProcessing
    /\ \E b \in InFlight : batches[b].closedDuring /\ CallsOf(b) # {}

\* The test and the assignment of isProcessing run in one handler: a
\* selection is accepted only while the flag is false, and sets it.
C16_GuardAtomic ==
    [][ (last'.op = "handleFileSelect" /\ last'.ret = "accepted")
        => (~isProcessing /\ isProcessing') ]_vars

\* C18: at most one batch is in flight.
C18_OneBatchInFlight == Cardinality(InFlight) <= 1

\* C19: while the session is open and processing its newest batch, the
\* return of an older batch leaves isProcessing true.
C19_OlderBatchKeepsFlag ==
    [][ ( /\ last'.ret \in Classes
          /\ isOpen /\ isProcessing
          /\ last'.b < Len(batches)
          /\ Len(batches) \in InFlight )
        => isProcessing' ]_vars

\* The timer that fires in this step.
FiredTimer == CHOOSE t \in timers : t \notin timers'

\* C20: the timer of a fully successful batch closes the session only if
\* no batch is in flight, no batch has been accepted and show() has not
\* run since the timer was set.
C20_TimerClosesOwnSession ==
    [][ (last'.op = "timer" /\ isOpen /\ ~isOpen')
        => /\ InFlight = {}
           /\ Len(batches) = FiredTimer.by
           /\ ~FiredTimer.reopened ]_vars

\* The extraction of a file with this reply returns success.
ExtractionSucceeds(reply) ==
    /\ reply.fetch.k = "http" /\ ResponseOk(reply.fetch.status)
    /\ reply.json.k = "body" /\ reply.json.success

\* v is a graph, or a text that parses to one.
Usable(v) == v.t = "object" \/ (v.t = "string" /\ JsonParses(v.s))

\* The indices of a sequence of file indices grow: no file comes twice.
Increasing(indices) ==
    \A j, k \in 1..Len(indices) : j < k => indices[j] < indices[k]

\* C21: app.loadGraphData is called at most once per file of a batch, and
\* only for a file whose extraction returned success with a workflow or a
\* prompt that is usable; successCount is the number of these calls that
\* returned without raising, while the batch runs and when it returns.
C21_HostCalls ==
    /\ \A b \in InFlight :
          /\ Increasing(batches[b].hostCalls)
          /\ \A j \in 1..Len(batches[b].hostCalls) :
                LET i == batches[b].hostCalls[j]
                    reply == batches[b].files[i].reply
                IN  /\ i \in 1..Len(batches[b].files)
                    /\ ExtractionSucceeds(reply)
                    /\ Usable(reply.json.workflow) \/ Usable(reply.json.prompt)
          /\ \A c \in CallsOf(b) :
                c.kind = "load" => batches[b].hostCalls[Len(batches[b].hostCalls)] = c.i
          /\ batches[b].successCount = batches[b].hostOk
    /\ Completed
       => /\ last.outcome.successCount = last.outcome.hostOk
          /\ Increasing(last.outcome.hostCalls)
          /\ Len(last.outcome.hostCalls) <= last.outcome.images

\* A batch has returned after two calls of the host, of which one raised,
\* and one file whose extraction failed.
C21_Witness ==
    /\ Completed
    /\ last.outcome.hostCalls = <<1, 3>>
    /\ last.outcome.hostOk = 1
    /\ last.outcome.successCount = 1
    /\ last.outcome.failCount = 2

====
